---- MODULE Spec2Model ----
(***************************************************************************)
(* A model of climahw: the scaled-byte codec (encoding.py), the area       *)
(* geometry helper, the command-line processing and the processing         *)
(* pipeline (homework.py).                                                  *)
(*                                                                         *)
(* Real numbers (numpy float64 values) are modelled as exact rationals     *)
(* [n |-> numerator, d |-> denominator > 0] in lowest terms.  An optional  *)
(* value (Python None or a value) is a sequence of length 0 or 1.          *)
(***************************************************************************)
EXTENDS Integers, Sequences, FiniteSets, TLC

VARIABLES codec, geom, DEFAULT_NUM_PROCS, user, argv, fs, run, pc, pa, uData, vData, wData, areas, rData, mData, status, wrote, history

vars == <<codec, geom, DEFAULT_NUM_PROCS, user, argv, fs, run, pc, pa, uData, vData, wData, areas, rData, mData, status, wrote, history>>

progVars == <<DEFAULT_NUM_PROCS, user, argv, fs, run, pc, pa, uData, vData, wData, areas, rData, mData, status, wrote, history>>

(***************************************************************************)
(* Bounds of the model.                                                    *)
(***************************************************************************)
\* wind values are drawn as multiples of 1/WindDen m/s
WindDen == 4
\* wind values are drawn from -(25 + WindExtra) .. 25 + WindExtra m/s
WindExtra == 2
\* shape components are drawn as k / ShapeDen, |k| <= MaxShapeNum
ShapeDen == 2
MaxShapeNum == 7
\* offsets are drawn as k / ShapeDen, |k| <= MaxOffsetNum
MaxOffsetNum == 2
\* the square root is computed to the nearest 1 / (127 * SqrtScale)
SqrtScale == 8
\* the host has 1 .. MaxCPUs processors
MaxCPUs == 2
\* input images are 1 row of 1 .. MaxWidth pixels
MaxWidth == 2
\* main is invoked at most MaxRuns times on the same argument list
MaxRuns == 2

(***************************************************************************)
(* Optional values.                                                        *)
(***************************************************************************)
None == <<>>

Some(x) == <<x>>

(***************************************************************************)
(* Rational arithmetic, the model of the float64 operations of the source. *)
(***************************************************************************)
Abs(x) == IF x < 0 THEN -x ELSE x

RECURSIVE GCD(_, _)
GCD(a, b) == IF b = 0 THEN a ELSE GCD(b, a % b)

Rat(n, d) ==
    LET g == GCD(Abs(n), Abs(d))
        s == IF d < 0 THEN -1 ELSE 1
    IN  [n |-> (s * n) \div g, d |-> (s * d) \div g]

RInt(k) == [n |-> k, d |-> 1]

RNeg(a) == [n |-> -a.n, d |-> a.d]

RAdd(a, b) ==
    LET l == (a.d \div GCD(a.d, b.d)) * b.d
    IN  Rat(a.n * (l \div a.d) + b.n * (l \div b.d), l)

RSub(a, b) == RAdd(a, RNeg(b))

RMul(a, b) ==
    LET g1 == GCD(Abs(a.n), b.d)
        g2 == GCD(Abs(b.n), a.d)
    IN  Rat((a.n \div g1) * (b.n \div g2), (a.d \div g2) * (b.d \div g1))

\* b # 0 wherever the source divides
RDiv(a, b) == RMul(a, Rat(b.d, b.n))

RLe(a, b) == a.n * b.d <= b.n * a.d

RLt(a, b) == a.n * b.d < b.n * a.d

RAbs(a) == [n |-> Abs(a.n), d |-> a.d]

\* numpy.minimum / numpy.maximum
minimum(a, b) == IF RLe(a, b) THEN a ELSE b

maximum(a, b) == IF RLe(a, b) THEN b ELSE a

\* numpy.around: round to the nearest integer, halves to the even neighbour;
\* the result is still a float, here an integral rational
around(a) ==
    LET f == a.n \div a.d
        r == a.n - f * a.d
    IN  IF 2 * r < a.d THEN RInt(f)
        ELSE IF 2 * r > a.d THEN RInt(f + 1)
        ELSE IF f % 2 = 0 THEN RInt(f) ELSE RInt(f + 1)

\* the largest k in lo .. hi with k * k <= x (lo * lo <= x < (hi + 1)^2)
RECURSIVE ISqrt(_, _, _)
ISqrt(x, lo, hi) ==
    IF lo >= hi THEN lo
    ELSE LET mid == (lo + hi + 1) \div 2
         IN  IF mid * mid <= x THEN ISqrt(x, mid, hi) ELSE ISqrt(x, lo, mid - 1)

SqrtDen == 127 * SqrtScale

\* numpy.sqrt of a >= 0, correctly rounded at the resolution 1 / SqrtDen
sqrt(a) ==
    LET x == RMul(a, RInt(SqrtDen * SqrtDen))
        fl == x.n \div x.d
        k == ISqrt(fl, 0, 46340)
    IN  IF x.d = 1 /\ k * k = fl THEN Rat(k, SqrtDen)
        ELSE IF RLt(RSub(x, RInt(k * k)), Rat(4 * k + 1, 4)) THEN Rat(k, SqrtDen)
        ELSE Rat(k + 1, SqrtDen)

(***************************************************************************)
(* encoding.py                                                             *)
(***************************************************************************)
MAX_WIND_SPEED == 25

encode_to_scaled_byte(raw, max_value) ==
    around(RAdd(RMul(RInt(127), maximum(minimum(RDiv(raw, max_value), RInt(1)), RInt(-1))), RInt(128)))

\* an off-by-one in the zero point of the signed mapping
decode_from_scaled_byte_Mutant(byte, max_value) ==
    RDiv(RMul(max_value, RSub(byte, RInt(127))), RInt(127))

decode_from_scaled_byte(byte, max_value) ==
    RDiv(RMul(max_value, RSub(byte, RInt(128))), RInt(127))

encode_wind(raw) == encode_to_scaled_byte(raw, RInt(MAX_WIND_SPEED))

decode_wind(byte) == decode_from_scaled_byte(byte, RInt(MAX_WIND_SPEED))

(***************************************************************************)
(* homework.py: the magnitude encoding                                     *)
(***************************************************************************)
\* the clipping left out
encode_magnitude_to_scaled_byte_Mutant(magnitude, max_value) ==
    around(RMul(RInt(255), RDiv(magnitude, max_value)))

encode_magnitude_to_scaled_byte(magnitude, max_value) ==
    around(RAdd(RMul(RInt(255), maximum(minimum(RDiv(magnitude, max_value), RInt(1)), RInt(0))), RInt(0)))

encode_wind_magnitude(magnitude) ==
    encode_magnitude_to_scaled_byte(magnitude, RInt(MAX_WIND_SPEED))

(***************************************************************************)
(* homework.py: the area geometry helper                                   *)
(***************************************************************************)
\* the default offset applied although an offset is given
area_extent_from_user_shape_Mutant(shape, offset) ==
    LET w == around(RDiv(shape[1], RInt(2)))
        h == around(RDiv(shape[2], RInt(2)))
        dx == RNeg(w)
        dy == h
    IN  <<RAdd(RNeg(w), dx), RAdd(RNeg(h), dy), RAdd(w, dx), RAdd(h, dy)>>

\* the default offset centres the area at the origin
area_extent_from_user_shape_Centred(shape, offset) ==
    LET w == around(RDiv(shape[1], RInt(2)))
        h == around(RDiv(shape[2], RInt(2)))
        dx == IF offset = None THEN RInt(0) ELSE offset[1][1]
        dy == IF offset = None THEN RInt(0) ELSE offset[1][2]
    IN  <<RAdd(RNeg(w), dx), RAdd(RNeg(h), dy), RAdd(w, dx), RAdd(h, dy)>>

area_extent_from_user_shape(shape, offset) ==
    LET w == around(RDiv(shape[1], RInt(2)))
        h == around(RDiv(shape[2], RInt(2)))
        dx == IF offset = None THEN RNeg(w) ELSE offset[1][1]
        dy == IF offset = None THEN h ELSE offset[1][2]
    IN  <<RAdd(RNeg(w), dx), RAdd(RNeg(h), dy), RAdd(w, dx), RAdd(h, dy)>>

compute_target_image_size(source_image_size, scale_factor) ==
    IF scale_factor = RInt(1) THEN source_image_size
    ELSE [i \in DOMAIN source_image_size |-> RMul(source_image_size[i], scale_factor)]

(***************************************************************************)
(* homework.py: command-line processing.  An argument list is a sequence   *)
(* of strings; float() and int() are tables over the strings drawn.        *)
(***************************************************************************)
DEFAULT_AREA_SOURCE == <<RInt(1000), RInt(500)>>

DEFAULT_AREA_UNIT == "m"

DEFAULT_IMAGE_SCALE == RInt(1)

DEFAULT_PROJECTION == "+proj=utm +zone=13 +ellps=WGS84"

DEGREES_TO_METERS == RDiv(RInt(500), Rat(5, 1000))

\* float(string): Some(value), or None for a ValueError
float(string) ==
    CASE string = "0" -> Some(RInt(0))
      [] string = "1" -> Some(RInt(1))
      [] string = "2" -> Some(RInt(2))
      [] string = "9" -> Some(RInt(9))
      [] string = "0.5" -> Some(Rat(1, 2))
      [] string = "0.005" -> Some(Rat(5, 1000))
      [] string = "125" -> Some(RInt(125))
      [] string = "-125" -> Some(RInt(-125))
      [] string = "250" -> Some(RInt(250))
      [] string = "500" -> Some(RInt(500))
      [] OTHER -> None

\* int(string): Some(value), or None for a ValueError
int(string) ==
    CASE string = "0" -> Some(0)
      [] string = "1" -> Some(1)
      [] string = "2" -> Some(2)
      [] string = "9" -> Some(9)
      [] string = "125" -> Some(125)
      [] string = "-125" -> Some(-125)
      [] string = "250" -> Some(250)
      [] string = "500" -> Some(500)
      [] OTHER -> None

\* the option strings of the parser, and the destination of each
OptionDest ==
    [ o \in {"-o", "--tOffset", "-p", "--projection", "-r", "--rescale", "-s", "--sShape", "-t", "--tShape", "-u", "--units", "-v", "--version", "--nprocs"} |->
        CASE o \in {"-o", "--tOffset"} -> "tOffset"
          [] o \in {"-p", "--projection"} -> "projection"
          [] o \in {"-r", "--rescale"} -> "rescale"
          [] o \in {"-s", "--sShape"} -> "sShape"
          [] o \in {"-t", "--tShape"} -> "tShape"
          [] o \in {"-u", "--units"} -> "units"
          [] o \in {"-v", "--version"} -> "version"
          [] OTHER -> "nprocs" ]

\* strings argparse takes for an option: a leading '-', not a negative number
LooksLikeOption(string) == string \in DOMAIN OptionDest \cup {"-x"}

\* the outcome of a type conversion: a value, or the error argparse reports
Converted(v) == [ok |-> TRUE, value |-> v]

Rejected == [ok |-> FALSE, value |-> None]

parse_rescale(string) ==
    LET value == float(string)
    IN  IF value = None THEN Rejected
        ELSE IF RLt(value[1], RInt(0)) \/ RLt(RInt(1), value[1]) THEN Rejected
        ELSE Converted(value[1])

\* values above the processor count accepted, left to the clamp of process_args
parse_nprocs_Mutant(string) ==
    LET value == int(string)
    IN  IF value = None THEN Rejected
        ELSE IF value[1] < 1 THEN Rejected
        ELSE Converted(value[1])

parse_nprocs(string) ==
    LET value == int(string)
    IN  IF value = None THEN Rejected
        ELSE IF value[1] < 1 THEN Rejected
        ELSE IF value[1] > DEFAULT_NUM_PROCS THEN Rejected
        ELSE Converted(value[1])

parse_units(value) ==
    IF value # "m" /\ value # "d" THEN Rejected ELSE Converted(value)

\* type=float, nargs=2
parse_float_pair(strings) ==
    LET x == float(strings[1])
        y == float(strings[2])
    IN  IF x = None \/ y = None THEN Rejected ELSE Converted(Some(<<x[1], y[1]>>))

\* the number of arguments an option takes
NArgs(dest) == IF dest \in {"tOffset", "sShape", "tShape"} THEN 2 ELSE 1

\* the conversion of an option's arguments
ConvertOption(dest, strings) ==
    CASE dest = "rescale" -> parse_rescale(strings[1])
      [] dest = "nprocs" -> parse_nprocs(strings[1])
      [] dest = "units" -> parse_units(strings[1])
      [] dest = "projection" -> Converted(strings[1])
      [] OTHER -> parse_float_pair(strings)

\* the Namespace before any argument is read: the defaults of add_argument
DefaultNamespace ==
    [ tOffset |-> None, projection |-> DEFAULT_PROJECTION, rescale |-> DEFAULT_IMAGE_SCALE,
      sShape |-> Some(DEFAULT_AREA_SOURCE), tShape |-> None, units |-> DEFAULT_AREA_UNIT,
      nprocs |-> DEFAULT_NUM_PROCS, uFile |-> "", vFile |-> "", oFile |-> "" ]

Store(ns, dest, v) ==
    CASE dest = "tOffset" -> [ns EXCEPT !.tOffset = v]
      [] dest = "projection" -> [ns EXCEPT !.projection = v]
      [] dest = "rescale" -> [ns EXCEPT !.rescale = v]
      [] dest = "sShape" -> [ns EXCEPT !.sShape = v]
      [] dest = "tShape" -> [ns EXCEPT !.tShape = v]
      [] dest = "units" -> [ns EXCEPT !.units = v]
      [] OTHER -> [ns EXCEPT !.nprocs = v]

\* ArgumentParser.parse_args from argument i on: options are consumed with
\* their arguments as they come, the other strings are the positionals
RECURSIVE parse_args(_, _, _, _)
parse_args(args, i, ns, positionals) ==
    IF i > Len(args) THEN
        IF Len(positionals) # 3 THEN [status |-> "ArgumentError", pa |-> None]
        ELSE [status |-> "ok", pa |-> Some([ns EXCEPT !.uFile = positionals[1], !.vFile = positionals[2], !.oFile = positionals[3]])]
    ELSE IF args[i] \in DOMAIN OptionDest THEN
        LET dest == OptionDest[args[i]]
            n == NArgs(dest)
            strings == SubSeq(args, i + 1, i + n)
        IN  IF dest = "version" THEN [status |-> "version", pa |-> None]
            ELSE IF i + n > Len(args) \/ \E k \in 1 .. n : LooksLikeOption(strings[k])
                THEN [status |-> "ArgumentError", pa |-> None]
            ELSE LET c == ConvertOption(dest, strings)
                 IN  IF ~c.ok THEN [status |-> "ArgumentError", pa |-> None]
                     ELSE parse_args(args, i + n + 1, Store(ns, dest, c.value), positionals)
    ELSE IF LooksLikeOption(args[i]) THEN [status |-> "ArgumentError", pa |-> None]
    ELSE parse_args(args, i + 1, ns, Append(positionals, args[i]))

Scaled(pair) == IF pair = None THEN None ELSE Some(<<RMul(pair[1][1], DEGREES_TO_METERS), RMul(pair[1][2], DEGREES_TO_METERS)>>)

\* the target offset left in degrees
normalize_units_Mutant(ns) ==
    IF ns.units = "d"
    THEN [ns EXCEPT !.sShape = Scaled(ns.sShape), !.tShape = Scaled(ns.tShape), !.units = "m"]
    ELSE ns

normalize_units(ns) ==
    IF ns.units = "d"
    THEN [ns EXCEPT !.sShape = Scaled(ns.sShape), !.tShape = Scaled(ns.tShape), !.tOffset = Scaled(ns.tOffset), !.units = "m"]
    ELSE ns

\* the post-processing of the parsed arguments
PostProcess(ns) ==
    LET p1 == IF ns.nprocs > DEFAULT_NUM_PROCS THEN [ns EXCEPT !.nprocs = DEFAULT_NUM_PROCS] ELSE ns
        p2 == IF p1.units = "d" THEN normalize_units(p1) ELSE p1
    IN  IF p2.tShape = None THEN [p2 EXCEPT !.tShape = p2.sShape, !.tOffset = Some(<<RInt(0), RInt(0)>>)] ELSE p2

\* process_args on the list args: the outcome, the Namespace returned and
\* the list as the call leaves it (del args[0] acts on the caller's list)
process_args(args) ==
    IF args = <<>> THEN [status |-> "IndexError", pa |-> None, args |-> args]
    ELSE LET rest == Tail(args)
             parsed == parse_args(rest, 1, DefaultNamespace, <<>>)
         IN  IF parsed.status # "ok" THEN [status |-> parsed.status, pa |-> None, args |-> rest]
             ELSE [status |-> "ok", pa |-> Some(PostProcess(parsed.pa[1])), args |-> rest]

(***************************************************************************)
(* homework.py: the processing pipeline.  An image is a sequence of rows,  *)
(* each a sequence of pixels; the file system maps a name to the image     *)
(* stored under it.                                                        *)
(***************************************************************************)
Shape(image) == <<Len(image), Len(image[1])>>

\* imread(name): the image, or None for FileNotFoundError
imread(files, name) == IF name \in DOMAIN files THEN files[name] ELSE None

\* the shape check passing whatever the shapes are
SameShape_Mutant(u, v) == TRUE

\* vData.shape == uData.shape
SameShape(u, v) == Shape(v) = Shape(u)

\* numpy broadcasting of two shapes: equal, or 1, in each dimension
Broadcastable(u, v) ==
    \A k \in 1 .. 2 : Shape(u)[k] = Shape(v)[k] \/ Shape(u)[k] = 1 \/ Shape(v)[k] = 1

Max(a, b) == IF a >= b THEN a ELSE b

\* the element of a that position (r, c) of the broadcast array reads
At(a, r, c) == a[IF Len(a) = 1 THEN 1 ELSE r][IF Len(a[1]) = 1 THEN 1 ELSE c]

Square(x) == RMul(x, x)

\* sqrt(decode_wind(uData)**2 + decode_wind(vData)**2), element by element
Magnitude(u, v) ==
    [ r \in 1 .. Max(Len(u), Len(v)) |->
        [ c \in 1 .. Max(Len(u[1]), Len(v[1])) |->
            sqrt(RAdd(Square(decode_wind(RInt(At(u, r, c)))), Square(decode_wind(RInt(At(v, r, c)))))) ] ]

\* the source area described with the default offset rule
ResampleAreas_Mutant(ns, s1) ==
    LET e1 == area_extent_from_user_shape(ns.sShape[1], None)
        s2 == compute_target_image_size(s1, ns.rescale)
        e2 == area_extent_from_user_shape(ns.tShape[1], ns.tOffset)
    IN  [ sArgs |-> [shape |-> ns.sShape[1], offset |-> None],
          tArgs |-> [shape |-> ns.tShape[1], offset |-> ns.tOffset],
          a1 |-> [width |-> s1[2], height |-> s1[1], extent |-> e1],
          a2 |-> [width |-> s2[2], height |-> s2[1], extent |-> e2] ]

\* the two area definitions resample hands to the resampling library, with
\* the arguments of the two calls of area_extent_from_user_shape
ResampleAreas(ns, s1) ==
    LET e1 == area_extent_from_user_shape(ns.sShape[1], Some(<<RInt(0), RInt(0)>>))
        s2 == compute_target_image_size(s1, ns.rescale)
        e2 == area_extent_from_user_shape(ns.tShape[1], ns.tOffset)
    IN  [ sArgs |-> [shape |-> ns.sShape[1], offset |-> Some(<<RInt(0), RInt(0)>>)],
          tArgs |-> [shape |-> ns.tShape[1], offset |-> ns.tOffset],
          a1 |-> [width |-> s1[2], height |-> s1[1], extent |-> e1],
          a2 |-> [width |-> s2[2], height |-> s2[1], extent |-> e2] ]

IsGridSize(x) == x.d = 1 /\ x.n >= 1

Ceil(x) == -((-x.n) \div x.d)

\* the values of the pixels of an array
Values(a) == { a[r][c] : r \in 1 .. Len(a), c \in 1 .. Len(a[1]) }

\* ImageContainerQuick(...).resample(a2).image_data: an array on the target
\* grid, each pixel the value of a source pixel (its nearest neighbour) or,
\* outside the source area, the fill value 0
Resampled(w, a2) ==
    [ 1 .. Ceil(a2.height) -> [ 1 .. Ceil(a2.width) -> Values(w) \cup {RInt(0)} ] ]

\* encode_wind_magnitude(rData).astype(dtype="uint8")
EncodedImage(r) ==
    [ i \in 1 .. Len(r) |-> [ j \in 1 .. Len(r[1]) |-> (encode_wind_magnitude(r[i][j]).n) % 256 ] ]

\* what a finished run leaves for its caller to see
Summary(st, ns, out) == [status |-> st, pa |-> ns, output |-> out]

Finish(st, ns, files) ==
    /\ pc' = "done"
    /\ status' = st
    /\ history' = Append(history, Summary(st, ns, IF st = "ok" THEN imread(files, ns[1].oFile) ELSE None))

\* main: process_args
ProcessArgs ==
    /\ pc = "process_args"
    /\ LET res == process_args(argv)
       IN  /\ argv' = res.args
           /\ pa' = res.pa
           /\ IF res.status = "ok"
              THEN pc' = "read_u" /\ UNCHANGED <<status, history>>
              ELSE Finish(res.status, res.pa, fs)
    /\ UNCHANGED <<codec, geom, DEFAULT_NUM_PROCS, user, fs, run, uData, vData, wData, areas, rData, mData, wrote>>

\* process_data, step 1: the u-component image
ReadU ==
    /\ pc = "read_u"
    /\ uData' = imread(fs, pa[1].uFile)
    /\ IF uData' = None
       THEN Finish("DataError", pa, fs)
       ELSE pc' = "read_v" /\ UNCHANGED <<status, history>>
    /\ UNCHANGED <<codec, geom, DEFAULT_NUM_PROCS, user, argv, fs, run, pa, vData, wData, areas, rData, mData, wrote>>

\* process_data, step 1: the v-component image
ReadV ==
    /\ pc = "read_v"
    /\ vData' = imread(fs, pa[1].vFile)
    /\ IF vData' = None
       THEN Finish("DataError", pa, fs)
       ELSE pc' = "check" /\ UNCHANGED <<status, history>>
    /\ UNCHANGED <<codec, geom, DEFAULT_NUM_PROCS, user, argv, fs, run, pa, uData, wData, areas, rData, mData, wrote>>

\* process_data, step 1: the assertion on the two shapes
CheckShapes ==
    /\ pc = "check"
    /\ IF SameShape(uData[1], vData[1])
       THEN pc' = "magnitude" /\ UNCHANGED <<status, history>>
       ELSE Finish("AssertionError", pa, fs)
    /\ UNCHANGED <<codec, geom, DEFAULT_NUM_PROCS, user, argv, fs, run, pa, uData, vData, wData, areas, rData, mData, wrote>>

\* process_data, step 2: the wind speed
ComputeMagnitude ==
    /\ pc = "magnitude"
    /\ IF Broadcastable(uData[1], vData[1])
       THEN /\ wData' = Some(Magnitude(uData[1], vData[1]))
            /\ pc' = "resample"
            /\ UNCHANGED <<status, history>>
       ELSE /\ wData' = None
            /\ Finish("ValueError", pa, fs)
    /\ UNCHANGED <<codec, geom, DEFAULT_NUM_PROCS, user, argv, fs, run, pa, uData, vData, areas, rData, mData, wrote>>

\* process_data, step 3: the resampling library returns an array
Resample ==
    /\ pc = "resample"
    /\ areas' = Some(ResampleAreas(pa[1], <<RInt(Shape(wData[1])[1]), RInt(Shape(wData[1])[2])>>))
    /\ Ceil(areas'[1].a2.height) >= 1
    /\ Ceil(areas'[1].a2.width) >= 1
    /\ \E image \in Resampled(wData[1], areas'[1].a2) : rData' = Some(image)
    /\ pc' = "encode"
    /\ UNCHANGED <<codec, geom, DEFAULT_NUM_PROCS, user, argv, fs, run, pa, uData, vData, wData, mData, status, wrote, history>>

\* process_data, step 3: the resampling library raises on a target size that
\* is not a positive integer
ResampleFails ==
    /\ pc = "resample"
    /\ areas' = Some(ResampleAreas(pa[1], <<RInt(Shape(wData[1])[1]), RInt(Shape(wData[1])[2])>>))
    /\ ~IsGridSize(areas'[1].a2.height) \/ ~IsGridSize(areas'[1].a2.width)
    /\ Finish("ResampleError", pa, fs)
    /\ UNCHANGED <<codec, geom, DEFAULT_NUM_PROCS, user, argv, fs, run, pa, uData, vData, wData, rData, mData, wrote>>

\* process_data, step 4: the magnitude encoding
EncodeMagnitude ==
    /\ pc = "encode"
    /\ mData' = Some(EncodedImage(rData[1]))
    /\ pc' = "write"
    /\ UNCHANGED <<codec, geom, DEFAULT_NUM_PROCS, user, argv, fs, run, pa, uData, vData, wData, areas, rData, status, wrote, history>>

\* process_data, step 5: the output image
WriteOutput ==
    /\ pc = "write"
    /\ fs' = (pa[1].oFile :> mData) @@ fs
    /\ wrote' = TRUE
    /\ Finish("ok", pa, fs')
    /\ UNCHANGED <<codec, geom, DEFAULT_NUM_PROCS, user, argv, run, pa, uData, vData, wData, areas, rData, mData>>

\* the caller invokes main once more with the list it passed before
Reinvoke ==
    /\ pc = "done"
    /\ run < MaxRuns
    /\ run' = run + 1
    /\ pc' = "process_args"
    /\ status' = "running"
    /\ pa' = None
    /\ uData' = None
    /\ vData' = None
    /\ wData' = None
    /\ areas' = None
    /\ rData' = None
    /\ mData' = None
    /\ wrote' = FALSE
    /\ UNCHANGED <<codec, geom, DEFAULT_NUM_PROCS, user, argv, fs, history>>

(***************************************************************************)
(* The program's variables while a library function is exercised alone.    *)
(***************************************************************************)
CodecIdle ==
    [pc |-> "idle", raw |-> RInt(0), byte |-> None, value |-> None]

GeomIdle ==
    [pc |-> "idle", shape |-> <<RInt(0), RInt(0)>>, offset |-> None, extent |-> None]

ProgramIdle ==
    /\ DEFAULT_NUM_PROCS = 1
    /\ user = None
    /\ argv = <<>>
    /\ fs = None
    /\ run = 0
    /\ pc = "idle"
    /\ pa = None
    /\ uData = None
    /\ vData = None
    /\ wData = None
    /\ areas = None
    /\ rData = None
    /\ mData = None
    /\ status = "idle"
    /\ wrote = FALSE
    /\ history = <<>>

(***************************************************************************)
(* The inputs of a run: the processor count of the host, the argument      *)
(* list the user's options make, and the files.                            *)
(***************************************************************************)
PROG == "climahw.homework"

NoOptions == [rescale |-> None, units |-> None, sShape |-> None, tShape |-> None, tOffset |-> None, nprocs |-> None, form |-> "plain"]

PairChoices == { None, Some(<<"500", "500">>), Some(<<"0.005", "0.005">>) }

GeometryUsers ==
    { [NoOptions EXCEPT !.rescale = r, !.units = u, !.sShape = s, !.tShape = t, !.tOffset = o, !.form = f] :
        r \in {None, Some("0.5"), Some("1")}, u \in {None, Some("d")},
        s \in PairChoices, t \in {None, Some(<<"250", "250">>)},
        o \in {None, Some(<<"125", "-125">>)}, f \in {"plain"} }

Forms == {"plain", "extra", "nofiles", "version", "unknown", "empty"}

ArgumentUsers ==
    { [NoOptions EXCEPT !.rescale = r, !.units = u, !.nprocs = n, !.form = f] :
        r \in {None, Some("2")}, u \in {None, Some("x")},
        n \in {None, Some("0"), Some("1"), Some("2"), Some("9"), Some("0.5")}, f \in Forms }

Users == GeometryUsers \cup ArgumentUsers

One(flag, v) == IF v = None THEN <<>> ELSE <<flag, v[1]>>

Two(flag, v) == IF v = None THEN <<>> ELSE <<flag, v[1][1], v[1][2]>>

\* the argument list of a user's options
ArgumentList(u) ==
    IF u.form = "empty" THEN <<>>
    ELSE (IF u.form = "extra" THEN <<"python", PROG>> ELSE <<PROG>>)
         \o One("-r", u.rescale) \o One("--units", u.units) \o Two("-s", u.sShape)
         \o Two("--tShape", u.tShape) \o Two("-o", u.tOffset) \o One("--nprocs", u.nprocs)
         \o (IF u.form = "version" THEN <<"-v">> ELSE IF u.form = "unknown" THEN <<"-x">> ELSE <<>>)
         \o (IF u.form = "nofiles" THEN <<"u.png", "v.png">> ELSE <<"u.png", "v.png", "o.png">>)

\* single-row images: one pixel value throughout, or a ramp over 0, 128, 255
Ramp(k) == CASE k % 3 = 1 -> 0 [] k % 3 = 2 -> 128 [] OTHER -> 255

Images ==
    UNION { { <<[c \in 1 .. w |-> 128]>>, <<[c \in 1 .. w |-> 255]>>, <<[c \in 1 .. w |-> Ramp(c)]>> } : w \in 1 .. MaxWidth }

FileSystems ==
    { ("u.png" :> u) @@ ("v.png" :> v) @@ ("o.png" :> None) :
        u \in {None} \cup { Some(im) : im \in Images }, v \in {None} \cup { Some(im) : im \in Images } }

Init ==
    /\ codec = CodecIdle
    /\ geom = GeomIdle
    /\ DEFAULT_NUM_PROCS \in 1 .. MaxCPUs
    /\ user \in Users
    /\ argv = ArgumentList(user)
    /\ fs \in FileSystems
    /\ run = 1
    /\ pc = "process_args"
    /\ pa = None
    /\ uData = None
    /\ vData = None
    /\ wData = None
    /\ areas = None
    /\ rData = None
    /\ mData = None
    /\ status = "running"
    /\ wrote = FALSE
    /\ history = <<>>

Next ==
    \/ ProcessArgs
    \/ ReadU
    \/ ReadV
    \/ CheckShapes
    \/ ComputeMagnitude
    \/ Resample
    \/ ResampleFails
    \/ EncodeMagnitude
    \/ WriteOutput

\* one invocation of main
Spec == Init /\ [][Next]_vars

\* main invoked repeatedly with the same list
SpecRepeat == Init /\ [][Next \/ Reinvoke]_vars

(***************************************************************************)
(* The codec applied to single values (encoding.py, and the magnitude      *)
(* encoding of homework.py).                                               *)
(***************************************************************************)
WindValues == { Rat(k, WindDen) : k \in -((MAX_WIND_SPEED + WindExtra) * WindDen) .. ((MAX_WIND_SPEED + WindExtra) * WindDen) }

CodecInit ==
    /\ codec \in { [pc |-> "input", raw |-> v, byte |-> None, value |-> None] : v \in WindValues }
    /\ geom = GeomIdle
    /\ ProgramIdle

EncodeWind ==
    /\ codec.pc = "input"
    /\ codec' = [codec EXCEPT !.pc = "encoded", !.byte = Some(encode_wind(codec.raw))]
    /\ UNCHANGED <<geom, progVars>>

DecodeWind ==
    /\ codec.pc = "encoded"
    /\ codec' = [codec EXCEPT !.pc = "decoded", !.value = Some(decode_wind(codec.byte[1]))]
    /\ UNCHANGED <<geom, progVars>>

EncodeWindMagnitude ==
    /\ codec.pc = "input"
    /\ codec' = [codec EXCEPT !.pc = "magnitude", !.byte = Some(encode_wind_magnitude(codec.raw))]
    /\ UNCHANGED <<geom, progVars>>

CodecNext == EncodeWind \/ DecodeWind \/ EncodeWindMagnitude

SpecCodec == CodecInit /\ [][CodecNext]_vars

(***************************************************************************)
(* The area geometry helper applied to single shapes and offsets.          *)
(***************************************************************************)
ShapeValues == { Rat(k, ShapeDen) : k \in 0 .. MaxShapeNum } \cup { RInt(250), RInt(500), RInt(1000) }

OffsetValues == { Rat(k, ShapeDen) : k \in -MaxOffsetNum .. MaxOffsetNum } \cup { RInt(125), RInt(-125) }

GeomInit ==
    /\ codec = CodecIdle
    /\ geom \in { [pc |-> "input", shape |-> <<w0, h0>>, offset |-> o, extent |-> None] : w0 \in ShapeValues, h0 \in ShapeValues, o \in {None} \cup { Some(<<dx, dy>>) : dx \in OffsetValues, dy \in OffsetValues } }
    /\ ProgramIdle

AreaExtent ==
    /\ geom.pc = "input"
    /\ geom' = [geom EXCEPT !.pc = "done", !.extent = Some(area_extent_from_user_shape(geom.shape, geom.offset))]
    /\ UNCHANGED <<codec, progVars>>

GeomNext == AreaExtent

SpecGeom == GeomInit /\ [][GeomNext]_vars

(***************************************************************************)
(* C1: signed codec round trip.  For every wind value v in [-25, 25],      *)
(* decode_wind(encode_wind(v)) differs from v by at most 25/127.           *)
(***************************************************************************)
RoundTripStep == Rat(MAX_WIND_SPEED, 127)

C1_RoundTrip ==
    (codec.pc = "decoded" /\ RLe(RAbs(codec.raw), RInt(MAX_WIND_SPEED)))
        => RLe(RAbs(RSub(codec.value[1], codec.raw)), RoundTripStep)

\* a value inside the range that the round trip does not give back exactly
C1_Witness ==
    /\ codec.pc = "decoded"
    /\ RLe(RAbs(codec.raw), RInt(MAX_WIND_SPEED))
    /\ codec.value[1] # codec.raw

(***************************************************************************)
(* C2: with max_value = 25, encode_wind_magnitude(m) is an integer in      *)
(* 0..255, monotonic non-decreasing in m, 0 at m = 0, 255 at m = 25,       *)
(* 255 for every m > 25 and 0 for every m < 0.                              *)
(***************************************************************************)
C2_Magnitude ==
    codec.pc = "magnitude" =>
        LET b == codec.byte[1]
            m == codec.raw
        IN  /\ b.d = 1
            /\ b.n \in 0 .. 255
            /\ (m = RInt(0) => b.n = 0)
            /\ (m = RInt(MAX_WIND_SPEED) => b.n = 255)
            /\ (RLt(RInt(MAX_WIND_SPEED), m) => b.n = 255)
            /\ (RLt(m, RInt(0)) => b.n = 0)
            /\ \A m2 \in WindValues : RLe(m2, m) => RLe(encode_wind_magnitude(m2), b)

\* a magnitude above the range saturates
C2_Witness ==
    /\ codec.pc = "magnitude"
    /\ RLt(RInt(MAX_WIND_SPEED), codec.raw)
    /\ codec.byte[1] = RInt(255)

(***************************************************************************)
(* C3 as stated: area_extent_from_user_shape([1000, 500], None) returns    *)
(* [-1000, 250, 0, 750].                                                   *)
(***************************************************************************)
IsDefaultExample ==
    /\ geom.pc = "done"
    /\ geom.shape = <<RInt(1000), RInt(500)>>
    /\ geom.offset = None

C3_Original ==
    IsDefaultExample => geom.extent[1] = <<RInt(-1000), RInt(250), RInt(0), RInt(750)>>

(***************************************************************************)
(* C3 amended: area_extent_from_user_shape([1000, 500], None) returns      *)
(* [-1000, 0, 0, 500]: half-extents w = 500, h = 250 and the default       *)
(* offset dx = -w = -500, dy = h = 250.                                     *)
(***************************************************************************)
C3_DefaultExtent ==
    IsDefaultExample => geom.extent[1] = <<RInt(-1000), RInt(0), RInt(0), RInt(500)>>

C3_Witness == IsDefaultExample /\ geom.extent # None

(***************************************************************************)
(* C4: with an explicit offset (dx, dy) the extent is                      *)
(* (-w+dx, -h+dy, w+dx, h+dy), w = round(w0/2), h = round(h0/2): a         *)
(* rectangle of width 2w and height 2h centred at (dx, dy); shape          *)
(* [500, 500] with offset [125, -125] gives [-125, -375, 375, 125].        *)
(***************************************************************************)
\* r is x rounded to an integer, halves to the even neighbour
IsRounded(r, x) ==
    /\ r.d = 1
    /\ RLe(RAbs(RSub(r, x)), Rat(1, 2))
    /\ (RAbs(RSub(r, x)) = Rat(1, 2) => r.n % 2 = 0)

C4_ExplicitOffset ==
    (geom.pc = "done" /\ geom.offset # None) =>
        LET e == geom.extent[1]
            dx == geom.offset[1][1]
            dy == geom.offset[1][2]
            w == RDiv(RSub(e[3], e[1]), RInt(2))
            h == RDiv(RSub(e[4], e[2]), RInt(2))
        IN  /\ IsRounded(w, RDiv(geom.shape[1], RInt(2)))
            /\ IsRounded(h, RDiv(geom.shape[2], RInt(2)))
            /\ e = <<RSub(dx, w), RSub(dy, h), RAdd(dx, w), RAdd(dy, h)>>
            /\ RAdd(e[1], e[3]) = RMul(RInt(2), dx)
            /\ RAdd(e[2], e[4]) = RMul(RInt(2), dy)
            /\ ((geom.shape = <<RInt(500), RInt(500)>> /\ geom.offset = Some(<<RInt(125), RInt(-125)>>))
                  => e = <<RInt(-125), RInt(-375), RInt(375), RInt(125)>>)

C4_Witness ==
    /\ geom.pc = "done"
    /\ geom.shape = <<RInt(500), RInt(500)>>
    /\ geom.offset = Some(<<RInt(125), RInt(-125)>>)
    /\ geom.extent = Some(<<RInt(-125), RInt(-375), RInt(375), RInt(125)>>)

(***************************************************************************)
(* C5: all-or-nothing pipeline.  The output image is written only after    *)
(* both input images were read and the shape check passed; a missing input *)
(* file (DataError) or differing shapes (assertion failure) end the run    *)
(* with no output file written.                                            *)
(***************************************************************************)
C5_AllOrNothing ==
    /\ wrote => /\ uData # None
                /\ vData # None
                /\ Shape(uData[1]) = Shape(vData[1])
                /\ status = "ok"
    /\ (pc = "done" /\ pa # None) =>
          LET u == imread(fs, pa[1].uFile)
              v == imread(fs, pa[1].vFile)
          IN  /\ (u = None \/ v = None) => (status = "DataError" /\ ~wrote /\ imread(fs, pa[1].oFile) = None)
              /\ (u # None /\ v # None /\ Shape(u[1]) # Shape(v[1]))
                    => (status = "AssertionError" /\ ~wrote /\ imread(fs, pa[1].oFile) = None)

\* both images read, their shapes differ, the run is over
C5_Witness ==
    /\ pc = "done"
    /\ status = "AssertionError"
    /\ uData # None
    /\ vData # None
    /\ Shape(uData[1]) # Shape(vData[1])

(***************************************************************************)
(* C6: end-to-end zero field.  When both input images have the same shape  *)
(* and every pixel is byte 128, every pixel of the output image is byte 0, *)
(* whatever the shapes, the offset and the rescale factor.                 *)
(***************************************************************************)
AllPixels(image, b) == \A r \in 1 .. Len(image) : \A c \in 1 .. Len(image[r]) : image[r][c] = b

ZeroField ==
    /\ uData # None
    /\ vData # None
    /\ Shape(uData[1]) = Shape(vData[1])
    /\ AllPixels(uData[1], 128)
    /\ AllPixels(vData[1], 128)

C6_ZeroField ==
    (pc = "done" /\ status = "ok" /\ ZeroField) => AllPixels(imread(fs, pa[1].oFile)[1], 0)

\* a zero field resampled to another area at another resolution and written
C6_Witness ==
    /\ pc = "done"
    /\ status = "ok"
    /\ ZeroField
    /\ Shape(uData[1]) = <<1, 2>>
    /\ user.tShape # None
    /\ user.tOffset # None
    /\ user.rescale = Some("0.5")
    /\ imread(fs, pa[1].oFile) # None

(***************************************************************************)
(* C7 as stated: a --nprocs value above the host's processor count is      *)
(* clamped to that count, so that argument processing completes with       *)
(* 1 <= nprocs <= count and the run proceeds.                              *)
(***************************************************************************)
\* an argument list that is well formed but for its --nprocs value, which
\* is above the processor count
OverCount ==
    /\ user.form = "plain"
    /\ user.rescale = None
    /\ user.units = None
    /\ user.nprocs # None
    /\ int(user.nprocs[1]) # None
    /\ int(user.nprocs[1])[1] > DEFAULT_NUM_PROCS

C7_Original ==
    (pc # "process_args" /\ OverCount) =>
        /\ pa # None
        /\ pa[1].nprocs = DEFAULT_NUM_PROCS
        /\ status # "ArgumentError"

(***************************************************************************)
(* C7 amended: a --nprocs value above the host's processor count is        *)
(* rejected while the arguments are parsed (an argument error), and the    *)
(* run does not proceed; whenever argument processing completes,           *)
(* 1 <= nprocs <= the host's processor count.                              *)
(***************************************************************************)
C7_Rejected ==
    /\ (pc # "process_args" /\ OverCount) => (pa = None /\ pc = "done" /\ status = "ArgumentError")
    /\ pa # None => (1 <= pa[1].nprocs /\ pa[1].nprocs <= DEFAULT_NUM_PROCS)

C7_Witness ==
    /\ OverCount
    /\ pc = "done"
    /\ status = "ArgumentError"

(***************************************************************************)
(* C8: repeatable runs.  Invoking main twice in succession with the same   *)
(* argument list yields the same parsed configuration and the same output  *)
(* image both times.                                                       *)
(***************************************************************************)
C8_Repeatable ==
    (Len(history) >= 2 /\ history[1].status = "ok") => history[2] = history[1]

(***************************************************************************)
(* C9: unit normalization.  With units 'd' every component of sShape,      *)
(* tShape and tOffset that reaches area_extent_from_user_shape has been    *)
(* multiplied by 500/0.005 exactly once, also when tShape is omitted and   *)
(* defaults to sShape; after process_args the units are always 'm'; with   *)
(* units 'm' the values reach the helper unchanged.                        *)
(***************************************************************************)
UserPair(p) == <<float(p[1][1])[1], float(p[1][2])[1]>>

Times(pair, k) == <<RMul(pair[1], k), RMul(pair[2], k)>>

C9_Units ==
    /\ pa # None => pa[1].units = "m"
    /\ areas # None =>
          LET k == IF user.units = Some("d") THEN RInt(100000) ELSE RInt(1)
              s == IF user.sShape = None THEN <<RInt(1000), RInt(500)>> ELSE UserPair(user.sShape)
          IN  /\ areas[1].sArgs.shape = Times(s, k)
              /\ areas[1].tArgs.shape = IF user.tShape = None THEN Times(s, k) ELSE Times(UserPair(user.tShape), k)
              /\ areas[1].tArgs.offset =
                    IF user.tShape = None THEN Some(<<RInt(0), RInt(0)>>)
                    ELSE IF user.tOffset = None THEN None
                    ELSE Some(Times(UserPair(user.tOffset), k))

\* degrees, the target shape omitted
C9_Witness ==
    /\ areas # None
    /\ user.units = Some("d")
    /\ user.sShape = Some(<<"0.005", "0.005">>)
    /\ user.tShape = None
    /\ areas[1].tArgs.shape = <<RInt(500), RInt(500)>>

(***************************************************************************)
(* C10 as stated: in resample the source extent for shape sShape is        *)
(* (-2w, 0, 0, 2h), w = round(sShape[0]/2), h = round(sShape[1]/2).        *)
(***************************************************************************)
HalfWidth(e) == RDiv(RSub(e[3], e[1]), RInt(2))

HalfHeight(e) == RDiv(RSub(e[4], e[2]), RInt(2))

\* e spans the rounded half shapes on either side of the centre (cx, cy)
IsExtentAbout(e, shape, cx, cy) ==
    /\ IsRounded(HalfWidth(e), RDiv(shape[1], RInt(2)))
    /\ IsRounded(HalfHeight(e), RDiv(shape[2], RInt(2)))
    /\ e = <<RSub(cx, HalfWidth(e)), RSub(cy, HalfHeight(e)), RAdd(cx, HalfWidth(e)), RAdd(cy, HalfHeight(e))>>

C10_Original ==
    areas # None =>
        LET e == areas[1].a1.extent
        IN  IsExtentAbout(e, areas[1].sArgs.shape, RNeg(HalfWidth(e)), HalfHeight(e))

(***************************************************************************)
(* C10 amended: an area's extent is centred at its offset when an offset   *)
(* is specified.  In resample the source area is always given the offset   *)
(* (0, 0): its extent is (-w, -h, w, h), w = round(sShape[0]/2),           *)
(* h = round(sShape[1]/2).  The default dx = -w, dy = +h places the target *)
(* area, when tShape is given without tOffset: its extent is then          *)
(* (-2w, 0, 0, 2h), w and h the rounded halves of tShape.                  *)
(***************************************************************************)
C10_Placement ==
    areas # None =>
        LET e1 == areas[1].a1.extent
            e2 == areas[1].a2.extent
            t == areas[1].tArgs
        IN  /\ IsExtentAbout(e1, areas[1].sArgs.shape, RInt(0), RInt(0))
            /\ t.offset # None => IsExtentAbout(e2, t.shape, t.offset[1][1], t.offset[1][2])
            /\ t.offset = None =>
                  /\ IsExtentAbout(e2, t.shape, RNeg(HalfWidth(e2)), HalfHeight(e2))
                  /\ e2[2] = RInt(0)
                  /\ e2[3] = RInt(0)

\* a source area of the default shape, and a target area without an offset
C10_Witness ==
    /\ areas # None
    /\ areas[1].a1.extent = <<RInt(-500), RInt(-250), RInt(500), RInt(250)>>
    /\ areas[1].tArgs.offset = None
    /\ areas[1].a2.extent = <<RInt(-250), RInt(0), RInt(0), RInt(250)>>

====
